---- MODULE Spec2Model ----
(***************************************************************************)
(* Discord-Receipts: the relevance filter of discord_listener.on_message   *)
(* and the receipt job of ReceiptPrinter.print_message, as a state machine.*)
(* One event is handled at a time (on_message holds no await); the job's   *)
(* printer calls are taken one at a time, each of which may raise.         *)
(***************************************************************************)
EXTENDS Integers, Sequences, FiniteSets, TLC

VARIABLES
    pc,            \* where the handler is: idle, on_message, print_message, try, printing, return
    message,       \* the message on_message was called with (NoMessage when idle)
    width,         \* ReceiptPrinter.width
    printer,       \* print_message's local `printer`: NoPrinter or the connection _connect returned
    todo,          \* the rest of print_message's try body: printer calls and image downloads to come
    written,       \* the printer calls that reached the device on this job's connection
    raised,        \* an exception was raised in the try body (the except branch ran)
    outcome,       \* how the handling of the event ended
    lookups,       \* guild.get_member calls made while handling this event
    fetches,       \* requests.get calls made while handling this event
    jobs,          \* print_message invocations so far
    conns,         \* connections opened so far; connection ids are 1..conns
    openConns,     \* connections opened on which close() was not called yet
    failedBefore,  \* some earlier job ended in connect-error or write-error
    errlog,        \* what was printed to sys.stderr while handling this event
    image          \* the PIL image _download_and_process_image is working on

vars == <<pc, message, width, printer, todo, written, raised, outcome,
          lookups, fetches, jobs, conns, openConns, failedBefore, errlog,
          image>>

-----------------------------------------------------------------------------
(* Bounds *)

\* print_message invocations explored
MaxJobs == 2

\* length of each of the two words of the long body
LongWord == 31

-----------------------------------------------------------------------------
(* Configuration: discord_listener.py lines 7-15 *)

PRINTER_WIDTH == 60

TARGET_USER_ID == "target"

OtherUser == "other"

UserIds == {TARGET_USER_ID, OtherUser}

\* a reference with no resolved message has no author
None == "None"

\* print_message's `printer` when _connect returned None
NoPrinter == [id |-> 0, job |-> 0, state |-> "none"]

NoMessage == [none |-> TRUE]

\* no image is being processed
NoImage ==
    [width |-> 0, height |-> 0, max_width |-> 0, new_width |-> 0,
     new_height |-> 0, state |-> "none"]

\* guild.get_member returned None
NotMember == [found |-> FALSE, roles |-> {}]

\* guild.get_member returned a member holding these role ids
Member(roles) == [found |-> TRUE, roles |-> roles]

TimeStamp == "12:34:56"

-----------------------------------------------------------------------------
(* Character sequences: str.split, str.lower, str.endswith *)

RECURSIVE Join(_)
\* the str of a sequence of characters
Join(cs) ==
    IF cs = <<>> THEN ""
    ELSE IF Len(cs) = 1 THEN cs[1]
    ELSE LET h == Len(cs) \div 2 IN
         Join(SubSeq(cs, 1, h)) \o Join(SubSeq(cs, h + 1, Len(cs)))

Rep(c, n) == [i \in 1..n |-> c]

IsSpace(c) == c \in {" ", "\n", "\t"}

\* the least element of a non-empty set of numbers
Least(S) == CHOOSE i \in S : \A j \in S : i <= j

RECURSIVE Split(_)
\* str.split(): the maximal runs of non-whitespace characters, in order
Split(cs) ==
    LET word == { i \in 1..Len(cs) : ~IsSpace(cs[i]) } IN
    IF word = {} THEN <<>>
    ELSE LET first == Least(word)
             gaps == { j \in first..Len(cs) : IsSpace(cs[j]) }
             stop == IF gaps = {} THEN Len(cs) + 1 ELSE Least(gaps)
         IN  <<Join(SubSeq(cs, first, stop - 1))>>
             \o Split(SubSeq(cs, stop, Len(cs)))

LowerChar(c) ==
    CASE c = "P" -> "p"
      [] c = "N" -> "n"
      [] c = "G" -> "g"
      [] c = "Z" -> "z"
      [] c = "I" -> "i"
      [] c = "C" -> "c"
      [] OTHER -> c

Lower(cs) == [i \in 1..Len(cs) |-> LowerChar(cs[i])]

EndsWith(cs, suffix) ==
    /\ Len(cs) >= Len(suffix)
    /\ SubSeq(cs, Len(cs) - Len(suffix) + 1, Len(cs)) = suffix

-----------------------------------------------------------------------------
(* Message events *)

References ==
    { [present |-> FALSE, resolved |-> FALSE, author |-> None],
      [present |-> TRUE,  resolved |-> FALSE, author |-> None] }
    \cup { [present |-> TRUE, resolved |-> TRUE, author |-> u] : u \in UserIds }

EmptyBody == <<>>

LongBody == Rep("a", LongWord) \o <<" ">> \o Rep("b", LongWord)

CatPng == <<"C", ".", "P", "N", "G">>

ArchiveZip == <<"a", ".", "z", "i", "p">>

Payloads ==
    { [content |-> EmptyBody, attachments |-> <<>>],
      [content |-> LongBody,  attachments |-> <<ArchiveZip, CatPng>>] }

\* message.mentions, as user ids
MentionSets == { {}, {OtherUser}, {TARGET_USER_ID, OtherUser} }

\* message.role_mentions, as role ids
RoleMentionSets == { {}, {"r1"}, {"r1", "r2"} }

\* what guild.get_member(TARGET_USER_ID) returns in the message's guild
Memberships == { NotMember, Member({"r1"}), Member({"r2"}) }

\* guild: message.guild is set; member: the guild's answer to get_member
Messages ==
    { [guild |-> g, member |-> mb, mentions |-> mu, role_mentions |-> mr,
       mention_everyone |-> me, reference |-> ref, author |-> OtherUser,
       content |-> p.content, attachments |-> p.attachments] :
        g \in BOOLEAN, mb \in Memberships, mu \in MentionSets,
        mr \in RoleMentionSets, me \in BOOLEAN,
        ref \in References, p \in Payloads }

\* a direct message has no guild, hence no member cache
DeliverableMessages == { m \in Messages : m.guild \/ m.member = NotMember }

-----------------------------------------------------------------------------
(* The relevance filter: discord_listener.on_message, lines 29-57 *)

\* line 36: any(user.id == TARGET_USER_ID for user in message.mentions)
FilterMention(m) == \E u \in m.mentions : u = TARGET_USER_ID

\* lines 40-48: a mentioned role that the target member holds in this guild
FilterRoleMention(m) ==
    /\ m.role_mentions # {}
    /\ m.member.found
    /\ (m.member.roles \cap m.role_mentions) # {}

\* line 51
FilterEveryone(m) == m.mention_everyone

\* lines 55-57
FilterReply(m) ==
    /\ m.reference.present
    /\ m.reference.resolved
    /\ m.reference.author = TARGET_USER_ID

\* should_print without the reply check of lines 55-57
ShouldPrint_NoReplyRule(m) ==
    IF ~m.guild
    THEN TRUE
    ELSE \/ FilterMention(m)
         \/ FilterRoleMention(m)
         \/ FilterEveryone(m)

\* lines 29-57: should_print
ShouldPrint(m) ==
    IF ~m.guild
    THEN TRUE
    ELSE \/ FilterMention(m)
         \/ FilterRoleMention(m)
         \/ FilterEveryone(m)
         \/ FilterReply(m)

\* lines 40-42: get_member is called only under `if message.role_mentions`
FilterLookups(m) == IF m.guild /\ m.role_mentions # {} THEN 1 ELSE 0

-----------------------------------------------------------------------------
(* The classification print_message derives: receipt_printer.py lines 117-133 *)

\* is_mention set as soon as any user is mentioned
is_mention_AnyUser(m, target_user_id) == m.mentions # {}

\* line 117
is_mention(m, target_user_id) == \E u \in m.mentions : u = target_user_id

\* is_role_mention set as soon as the member is found, roles not compared
is_role_mention_AnyMember(m, target_user_id) ==
    /\ m.guild
    /\ m.role_mentions # {}
    /\ m.member.found

\* lines 120-126
is_role_mention(m, target_user_id) ==
    /\ m.guild
    /\ m.role_mentions # {}
    /\ m.member.found
    /\ (m.member.roles \cap m.role_mentions) # {}

\* line 129
is_everyone(m) == m.mention_everyone

\* is_reply for any resolved reference, its author not compared
is_reply_AnyAuthor(m, target_user_id) ==
    /\ m.reference.present
    /\ m.reference.resolved

\* lines 131-133
is_reply(m, target_user_id) ==
    /\ m.reference.present
    /\ m.reference.resolved
    /\ m.reference.author = target_user_id

\* lines 121-122: get_member is called only with a guild and role mentions
ClassifyLookups(m) == IF m.guild /\ m.role_mentions # {} THEN 1 ELSE 0

-----------------------------------------------------------------------------
(* Printer calls.  A call is [sec, op, arg]: sec is the print_message step    *)
(* that makes it, op is set / text / image / cut, or a download to be made    *)
(* (fetch_avatar, fetch_image), arg its argument.                             *)

Call(sec, op, arg) == [sec |-> sec, op |-> op, arg |-> arg]

ChannelName == "general"

GuildName == "guild"

\* _print_channel_header, lines 166-175
print_channel_header(m) ==
    <<Call("header", "set", "align=left font=b bold=True")>>
    \o (IF m.guild
        THEN << Call("header", "text", "# " \o ChannelName \o "\n"),
                Call("header", "set", "font=b bold=False"),
                Call("header", "text", GuildName \o "\n") >>
        ELSE << Call("header", "text", "DIRECT MESSAGE\n") >>)
    \o <<Call("header", "text", "\n")>>

\* _print_reply_indicator, lines 177-181
print_reply_indicator(replied_message) ==
    << Call("reply", "set", "align=left font=b bold=False"),
       Call("reply", "text", "  Replying to " \o replied_message.author \o "\n"),
       Call("reply", "text", "\n") >>

\* message.author.display_avatar.url
AvatarUrl(m) == "avatar/" \o m.author

\* _print_avatar, lines 183-188: the download comes first
print_avatar(avatar_url) == <<Call("avatar", "fetch_avatar", avatar_url)>>

\* an author line with the @everyone badge ahead of the @role badge
print_author_line_EveryoneFirst(author_name, timestamp, mention, role_mention, everyone) ==
    << Call("author", "set", "align=left font=a bold=True"),
       Call("author", "text", author_name),
       Call("author", "set", "bold=False") >>
    \o (IF mention THEN <<Call("author", "text", " @")>> ELSE <<>>)
    \o (IF everyone THEN <<Call("author", "text", " @everyone")>> ELSE <<>>)
    \o (IF role_mention THEN <<Call("author", "text", " @role")>> ELSE <<>>)
    \o << Call("author", "set", "bold=False"),
          Call("author", "text", "  " \o timestamp \o "\n") >>

\* _print_author_line, lines 190-210
print_author_line(author_name, timestamp, mention, role_mention, everyone) ==
    << Call("author", "set", "align=left font=a bold=True"),
       Call("author", "text", author_name),
       Call("author", "set", "bold=False") >>
    \o (IF mention THEN <<Call("author", "text", " @")>> ELSE <<>>)
    \o (IF role_mention THEN <<Call("author", "text", " @role")>> ELSE <<>>)
    \o (IF everyone THEN <<Call("author", "text", " @everyone")>> ELSE <<>>)
    \o << Call("author", "set", "bold=False"),
          Call("author", "text", "  " \o timestamp \o "\n") >>

RECURSIVE WrapFrom_DropsWord(_, _, _)
\* a loop that starts the new line empty: the word that did not fit is lost
WrapFrom_DropsWord(words, line, w) ==
    IF words = <<>>
    THEN IF line # "" THEN <<line>> ELSE <<>>
    ELSE LET word == Head(words) IN
         IF Len(line \o word) < w
         THEN WrapFrom_DropsWord(Tail(words), line \o word \o " ", w)
         ELSE <<line>> \o WrapFrom_DropsWord(Tail(words), "", w)

RECURSIVE WrapFrom_WordOnly(_, _, _)
\* a loop that tests the length of the word, not of the line with the word
WrapFrom_WordOnly(words, line, w) ==
    IF words = <<>>
    THEN IF line # "" THEN <<line>> ELSE <<>>
    ELSE LET word == Head(words) IN
         IF Len(word) < w
         THEN WrapFrom_WordOnly(Tail(words), line \o word \o " ", w)
         ELSE <<line>> \o WrapFrom_WordOnly(Tail(words), word \o " ", w)

RECURSIVE WrapFrom_OneLine(_, _, _)
\* a loop that never breaks the line
WrapFrom_OneLine(words, line, w) ==
    IF words = <<>>
    THEN IF line # "" THEN <<line>> ELSE <<>>
    ELSE WrapFrom_OneLine(Tail(words), line \o Head(words) \o " ", w)

RECURSIVE WrapFrom_FitsAtWidth(_, _, _)
\* a loop that keeps the word on the line when line + word is just the width
WrapFrom_FitsAtWidth(words, line, w) ==
    IF words = <<>>
    THEN IF line # "" THEN <<line>> ELSE <<>>
    ELSE LET word == Head(words) IN
         IF Len(line \o word) <= w
         THEN WrapFrom_FitsAtWidth(Tail(words), line \o word \o " ", w)
         ELSE <<line>> \o WrapFrom_FitsAtWidth(Tail(words), word \o " ", w)

RECURSIVE WrapFrom(_, _, _)
\* lines 218-226: the lines the loop passes to printer.text (before '\n' is
\* added), given the words still to place and the line being built
WrapFrom(words, line, w) ==
    IF words = <<>>
    THEN IF line # "" THEN <<line>> ELSE <<>>
    ELSE LET word == Head(words) IN
         IF Len(line \o word) < w
         THEN WrapFrom(Tail(words), line \o word \o " ", w)
         ELSE <<line>> \o WrapFrom(Tail(words), word \o " ", w)

\* lines 217-226
WrapLines(content, w) == WrapFrom(Split(content), "", w)

\* _print_content, lines 212-226
print_content(content, w) ==
    <<Call("content", "set", "align=left font=a bold=False")>>
    \o [i \in 1..Len(WrapLines(content, w)) |->
            Call("content", "text", WrapLines(content, w)[i] \o "\n")]

\* line 234
image_extensions ==
    { <<".", "j", "p", "g">>, <<".", "j", "p", "e", "g">>, <<".", "p", "n", "g">>,
      <<".", "g", "i", "f">>, <<".", "w", "e", "b", "p">>, <<".", "b", "m", "p">> }

\* a filter that compares the file name as it is written
IsImage_CaseSensitive(filename) ==
    \E ext \in image_extensions : EndsWith(filename, ext)

\* line 237
IsImage(filename) == \E ext \in image_extensions : EndsWith(Lower(filename), ext)

RECURSIVE SelectImages(_)
\* lines 235-238: the image attachments, in attachment order
SelectImages(atts) ==
    IF atts = <<>> THEN <<>>
    ELSE (IF IsImage(Head(atts)) THEN <<Head(atts)>> ELSE <<>>)
         \o SelectImages(Tail(atts))

\* attachment.url
AttachmentUrl(filename) == "cdn/" \o Join(filename)

RECURSIVE PrintImages(_)
\* lines 247-251: per image attachment a caption, then its download
PrintImages(atts) ==
    IF atts = <<>> THEN <<>>
    ELSE << Call("attachments", "set", "align=left font=b bold=False"),
            Call("attachments", "text", "[Image: " \o Join(Head(atts)) \o "]\n"),
            Call("attachments", "fetch_image", AttachmentUrl(Head(atts))) >>
         \o PrintImages(Tail(atts))

\* _print_attachments, lines 228-257
print_attachments(m) ==
    IF m.attachments = <<>> THEN <<>>
    ELSE IF SelectImages(m.attachments) = <<>> THEN <<>>
    ELSE <<Call("attachments", "text", "\n")>>
         \o PrintImages(SelectImages(m.attachments))

\* _print_separator, lines 259-261
print_separator == <<Call("separator", "cut", "")>>

\* what a download leaves to be printed: lines 186-188 (avatar), 252-257 (image)
AfterFetch(c, img) ==
    IF c.op = "fetch_avatar"
    THEN IF img
         THEN << Call("avatar", "set", "align=left"),
                 Call("avatar", "image", c.arg) >>
         ELSE <<>>
    ELSE IF img
         THEN << Call("attachments", "set", "align=center"),
                 Call("attachments", "image", c.arg),
                 Call("attachments", "text", "\n") >>
         ELSE << Call("attachments", "text", "(Failed to load image)\n") >>

IsFetch(c) == c.op \in {"fetch_avatar", "fetch_image"}

\* the try body with the avatar printed after the author line
PrintMessageBody_AvatarAfterAuthor(m, target_user_id, w) ==
    print_channel_header(m)
    \o (IF is_reply(m, target_user_id)
        THEN print_reply_indicator(m.reference) ELSE <<>>)
    \o print_author_line(m.author, TimeStamp, is_mention(m, target_user_id),
                         is_role_mention(m, target_user_id), is_everyone(m))
    \o print_avatar(AvatarUrl(m))
    \o print_content(m.content, w)
    \o print_attachments(m)
    \o print_separator

\* print_message's try body, lines 116-155
PrintMessageBody(m, target_user_id, w) ==
    print_channel_header(m)
    \o (IF is_reply(m, target_user_id)
        THEN print_reply_indicator(m.reference) ELSE <<>>)
    \o print_avatar(AvatarUrl(m))
    \o print_author_line(m.author, TimeStamp, is_mention(m, target_user_id),
                         is_role_mention(m, target_user_id), is_everyone(m))
    \o print_content(m.content, w)
    \o print_attachments(m)
    \o print_separator

-----------------------------------------------------------------------------
(* The handler, step by step *)

\* discord_listener.py line 15: receipt_printer = ReceiptPrinter(.., PRINTER_WIDTH)
Init ==
    /\ pc = "idle"
    /\ message = NoMessage
    /\ width = PRINTER_WIDTH
    /\ printer = NoPrinter
    /\ todo = <<>>
    /\ written = <<>>
    /\ raised = FALSE
    /\ outcome = "none"
    /\ lookups = 0
    /\ fetches = 0
    /\ jobs = 0
    /\ conns = 0
    /\ openConns = {}
    /\ failedBefore = FALSE
    /\ errlog = <<>>
    /\ image = NoImage

\* a handler that takes no event once a job has failed
HandlerFree_UntilFailure == pc = "idle" /\ ~failedBefore

\* a handler that is entered again while a job is printing
HandlerFree_WhilePrinting == pc \in {"idle", "printing"}

\* on_message holds no await and print_message is synchronous: the client
\* dispatches the next event only when the handler has returned
HandlerFree == pc = "idle"

\* the client calls on_message(message)
Deliver(m) ==
    /\ HandlerFree
    /\ jobs < MaxJobs
    /\ message' = m
    /\ pc' = "on_message"
    /\ printer' = NoPrinter
    /\ todo' = <<>>
    /\ written' = <<>>
    /\ raised' = FALSE
    /\ outcome' = "none"
    /\ lookups' = 0
    /\ fetches' = 0
    /\ errlog' = <<>>
    /\ UNCHANGED <<width, jobs, conns, openConns, failedBefore, image>>

\* on_message lines 29-79: the filter, then the call of print_message
Filter ==
    /\ pc = "on_message"
    /\ lookups' = lookups + FilterLookups(message)
    /\ IF ShouldPrint(message)
       THEN /\ pc' = "print_message"
            /\ jobs' = jobs + 1
            /\ UNCHANGED outcome
       ELSE /\ pc' = "return"
            /\ outcome' = "rejected"
            /\ UNCHANGED jobs
    /\ UNCHANGED <<message, width, printer, todo, written, raised, fetches,
                   conns, openConns, failedBefore, errlog, image>>

\* one long-lived connection, opened by the first job and handed to every job
NewConnection_LongLived == [id |-> 1, job |-> 1, state |-> "open"]

\* _connect line 34: Network(ip, port) opens a new connection, for this job
NewConnection == [id |-> conns + 1, job |-> jobs, state |-> "open"]

\* print_message without the early return of lines 112-113
ConnectFailed_GoesOn ==
    [pc |-> "try", todo |-> <<>>, outcome |-> "connect-error"]

\* print_message lines 112-113: `if not printer: return`, before anything is
\* printed or downloaded
ConnectFailed == [pc |-> "return", todo |-> <<>>, outcome |-> "connect-error"]

\* print_message lines 111-113: _connect and the early return
Connect ==
    /\ pc = "print_message"
    /\ \E connected \in BOOLEAN :
        IF connected
        THEN /\ printer' = NewConnection
             /\ conns' = conns + 1
             /\ openConns' = openConns \cup {NewConnection.id}
             /\ pc' = "try"
             /\ UNCHANGED <<outcome, todo, errlog>>
        ELSE /\ pc' = ConnectFailed.pc
             /\ todo' = ConnectFailed.todo
             /\ outcome' = ConnectFailed.outcome
             /\ errlog' = Append(errlog, "Failed to connect to printer")
             /\ UNCHANGED <<printer, conns, openConns>>
    /\ UNCHANGED <<message, width, written, raised, lookups, fetches, jobs,
                   failedBefore, image>>

\* print_message lines 115-133: the try body begins with the classification
\* (timestamp, is_mention, is_role_mention, is_everyone, is_reply); what it
\* prints from line 136 on is settled here
Classify ==
    /\ pc = "try"
    /\ lookups' = lookups + ClassifyLookups(message)
    /\ todo' = PrintMessageBody(message, TARGET_USER_ID, width)
    /\ pc' = "printing"
    /\ UNCHANGED <<message, width, printer, written, raised, outcome, fetches,
                   jobs, conns, openConns, failedBefore, errlog, image>>

\* print_message lines 159-164: finally, printer.close(); an error of close
\* is swallowed, so the handler goes on the same way either way
Closed(p) == [p EXCEPT !.state = "closed"]

\* a try body that goes on after a call has raised
RestAfter_GoesOn(ok, rest) == rest

\* lines 115-158: the calls left in the try body after one call; an exception
\* leaves the body for the except branch
RestAfter(ok, rest) == IF ok THEN rest ELSE <<>>

\* one printer.set / text / image / cut call of the try body.  It may raise:
\* the except branch (line 157) logs, the rest of the body is skipped.  After
\* the last call, or after the except branch, the finally block closes.
PrinterCall ==
    /\ pc = "printing"
    /\ todo # <<>>
    /\ ~IsFetch(Head(todo))
    /\ \E ok \in BOOLEAN :
        /\ written' = IF ok
                      THEN Append(written, [conn |-> printer.id, call |-> Head(todo)])
                      ELSE written
        /\ todo' = RestAfter(ok, Tail(todo))
        /\ raised' = ~ok
        /\ errlog' = IF ok THEN errlog
                      ELSE Append(errlog, "Error printing to receipt printer")
        /\ IF todo' = <<>>
           THEN /\ printer' = Closed(printer)
                /\ openConns' = { c \in openConns :
                                    c # printer.id \/ printer'.state # "closed" }
                /\ outcome' = IF ok THEN "success" ELSE "write-error"
                /\ pc' = "return"
           ELSE UNCHANGED <<printer, openConns, outcome, pc>>
    /\ UNCHANGED <<message, width, lookups, fetches, jobs, conns, failedBefore,
                   image>>

\* what requests.get and Image.open can do with a url: answer 200 with an
\* image, answer 200 with bytes that are no image (Image.open raises), answer
\* another status, or raise (timeout, refused connection)
Responses == {"200-image", "200-undecodable", "404", "timeout"}

\* _download_and_process_avatar lines 51-66 and _download_and_process_image
\* lines 81-100: the image when the status is 200 and the bytes decode; an
\* exception is caught, logged and None returned; with another status the
\* `if` of line 53 / 83 is skipped and the function ends, returning None
\* without a word
download_and_process(op, response) ==
    IF response = "200-image"
    THEN [img |-> TRUE, log |-> <<>>]
    ELSE IF response = "404"
    THEN [img |-> FALSE, log |-> <<>>]
    ELSE [img |-> FALSE,
          log |-> << IF op = "fetch_avatar"
                     THEN "Could not fetch/process avatar"
                     ELSE "Could not fetch/process image" >>]

\* _print_avatar line 185 / _print_attachments line 249: the download, and
\* the branch on its result; never an exception
Download ==
    /\ pc = "printing"
    /\ todo # <<>>
    /\ IsFetch(Head(todo))
    /\ \E response \in Responses :
        LET r == download_and_process(Head(todo).op, response) IN
        /\ todo' = AfterFetch(Head(todo), r.img) \o Tail(todo)
        /\ errlog' = errlog \o r.log
    /\ fetches' = fetches + 1
    /\ UNCHANGED <<pc, message, width, printer, written, raised, outcome,
                   lookups, jobs, conns, openConns, failedBefore, image>>

\* on_message returns; its locals are gone
Return ==
    /\ pc = "return"
    /\ pc' = "idle"
    /\ message' = NoMessage
    /\ printer' = NoPrinter
    /\ todo' = <<>>
    /\ written' = <<>>
    /\ raised' = FALSE
    /\ outcome' = "none"
    /\ lookups' = 0
    /\ fetches' = 0
    /\ errlog' = <<>>
    /\ failedBefore' = (failedBefore \/ outcome \in {"connect-error", "write-error"})
    /\ UNCHANGED <<width, jobs, conns, openConns, image>>

Next ==
    \/ \E m \in DeliverableMessages : Deliver(m)
    \/ Filter
    \/ Connect
    \/ Classify
    \/ PrinterCall
    \/ Download
    \/ Return

Spec == Init /\ [][Next]_vars

-----------------------------------------------------------------------------
(* The same handler with a printer of any width and bodies of any shape:     *)
(* ReceiptPrinter(ip, port, width) takes the width from its caller, and      *)
(* _print_content / _print_attachments take what the message holds           *)

\* characters of the bodies drawn
MaxLen == 7

\* widths 1..MaxWidth are drawn
MaxWidth == 4

Alphabet == {"a", " "}

HelloThereFriend ==
    << "h", "e", "l", "l", "o", " ", "t", "h", "e", "r", "e", " ",
       "f", "r", "i", "e", "n", "d" >>

\* every whitespace str.split() meets in the model, and two-letter words
TabbedBody == << "\t", "b", "a", "\n", "\n", "a", "b", " " >>

Texts ==
    UNION { [1..n -> Alphabet] : n \in 0..MaxLen }
    \cup {HelloThereFriend, TabbedBody}

Widths == (1..MaxWidth) \cup {10}

PhotoGif == <<"b", ".", "g", "i", "f">>

\* ends in png, but not in .png
NoDotPng == <<"p", "n", "g">>

FileNames == {CatPng, ArchiveZip, PhotoGif, NoDotPng}

AttachmentLists ==
    {<<>>} \cup { <<f>> : f \in FileNames }
    \cup { <<f, g>> : f \in FileNames, g \in FileNames }

\* direct messages (they pass the filter) with a body or attachments
BodyMessages ==
    { [guild |-> FALSE, member |-> NotMember, mentions |-> {},
       role_mentions |-> {}, mention_everyone |-> FALSE,
       reference |-> [present |-> FALSE, resolved |-> FALSE, author |-> None],
       author |-> OtherUser, content |-> p.content,
       attachments |-> p.attachments] :
        p \in { [content |-> t, attachments |-> <<>>] : t \in Texts }
              \cup { [content |-> EmptyBody, attachments |-> as] :
                        as \in AttachmentLists } }

\* receipt_printer.py lines 11-24: ReceiptPrinter(ip, port, width)
InitBody ==
    /\ pc = "idle"
    /\ message = NoMessage
    /\ width \in Widths
    /\ printer = NoPrinter
    /\ todo = <<>>
    /\ written = <<>>
    /\ raised = FALSE
    /\ outcome = "none"
    /\ lookups = 0
    /\ fetches = 0
    /\ jobs = 0
    /\ conns = 0
    /\ openConns = {}
    /\ failedBefore = FALSE
    /\ errlog = <<>>
    /\ image = NoImage

\* one event is followed from on_message to its return
NextBody ==
    \/ \E m \in BodyMessages : jobs = 0 /\ Deliver(m)
    \/ Filter
    \/ Connect
    \/ Classify
    \/ PrinterCall
    \/ Download
    \/ Return

SpecBody == InitBody /\ [][NextBody]_vars

-----------------------------------------------------------------------------
(* What the receipt of the current job shows *)

\* a text call of the given step with the given string reached the printer
HasText(sec, arg) ==
    \E i \in 1..Len(written) : written[i].call = Call(sec, "text", arg)

\* some call of the given step reached the printer
HasSec(sec) == \E i \in 1..Len(written) : written[i].call.sec = sec

BadgeTexts == {" @", " @role", " @everyone"}

IsBadge(c) == c.sec = "author" /\ c.op = "text" /\ c.arg \in BadgeTexts

\* the event is past the filter of on_message
Filtered == pc \notin {"idle", "on_message"}

\* the four rules of the relevance filter, as the specification words them
RuleDirectMention(m) == TARGET_USER_ID \in m.mentions

RuleRoleMention(m) ==
    m.member.found /\ (m.role_mentions \cap m.member.roles) # {}

RuleBroadcast(m) == m.mention_everyone

RuleReplyTarget(m) ==
    m.reference.present /\ m.reference.resolved
    /\ m.reference.author = TARGET_USER_ID

-----------------------------------------------------------------------------
(* C1 *)

\* C1: a direct message (no guild) passes the filter whatever its mention
\* fields are, and is classified with the empty tag set: its receipt carries
\* no badge and no reply marker.
C1_DirectMessageUntagged ==
    (pc # "idle" /\ ~message.guild) =>
        /\ Filtered => outcome # "rejected"
        /\ \A i \in 1..Len(written) :
              /\ ~IsBadge(written[i].call)
              /\ written[i].call.sec # "reply"

-----------------------------------------------------------------------------
(* C2 *)

\* C2: a guild event passes the filter exactly when at least one of the four
\* rules matches; a rejected event sends nothing to the printer; the receipt of
\* a passed event carries the tag of every rule that matches, and no other.
C2_GuildPassIffRule ==
    (Filtered /\ message.guild) =>
        /\ (outcome # "rejected") <=>
              \/ RuleDirectMention(message)
              \/ RuleRoleMention(message)
              \/ RuleBroadcast(message)
              \/ RuleReplyTarget(message)
        /\ outcome = "rejected" =>
              /\ written = <<>> /\ todo = <<>> /\ fetches = 0
              /\ printer = NoPrinter /\ openConns = {}
        /\ outcome = "success" =>
              /\ RuleDirectMention(message) <=> HasText("author", " @")
              /\ RuleRoleMention(message) <=> HasText("author", " @role")
              /\ RuleBroadcast(message) <=> HasText("author", " @everyone")
              /\ RuleReplyTarget(message) <=> HasSec("reply")

\* a printed guild event that matches the role rule and the reply rule at once
C2_Witness ==
    /\ pc = "return" /\ outcome = "success" /\ message.guild
    /\ RuleRoleMention(message) /\ RuleReplyTarget(message)
    /\ ~RuleDirectMention(message)
    /\ HasText("author", " @role") /\ HasSec("reply")

-----------------------------------------------------------------------------
(* C3 *)

\* C3: the role-mention tag appears only when the mentioned roles are non-empty
\* and intersect the roles the monitored member holds in the guild; with no
\* mentioned role the membership lookup is not made; for a non-member the rule
\* does not match and the other three rules still decide.
C3_RoleRule ==
    Filtered =>
        /\ message.role_mentions = {} =>
              lookups = 0 /\ ~HasText("author", " @role")
        /\ HasText("author", " @role") =>
              /\ message.role_mentions # {}
              /\ message.member.found
              /\ (message.role_mentions \cap message.member.roles) # {}
        /\ (message.guild /\ ~message.member.found) =>
              /\ ~HasText("author", " @role")
              /\ (outcome # "rejected") <=>
                    \/ RuleDirectMention(message)
                    \/ RuleBroadcast(message)
                    \/ RuleReplyTarget(message)

\* a guild event that mentions roles while the monitored user is no member of
\* the guild, printed because it is a reply to the monitored user
C3_Witness ==
    /\ pc = "return" /\ outcome = "success" /\ message.guild
    /\ message.role_mentions # {} /\ ~message.member.found
    /\ lookups = 2
    /\ RuleReplyTarget(message) /\ HasSec("reply")

-----------------------------------------------------------------------------
(* C4 *)

\* the place of each print_message step in the receipt
SecRank(sec) ==
    CASE sec = "header" -> 1
      [] sec = "reply" -> 2
      [] sec = "avatar" -> 3
      [] sec = "author" -> 4
      [] sec = "content" -> 5
      [] sec = "attachments" -> 6
      [] sec = "separator" -> 7

\* C4: the calls of a job reach the printer in the order header, reply marker,
\* avatar, author line, body, attachments, cut: no step out of order or twice;
\* cut is written at most once, as the last call, and a job without write
\* error ends with it.
C4_DirectiveOrder ==
    /\ \A i \in 1..(Len(written) - 1) :
          SecRank(written[i].call.sec) <= SecRank(written[i + 1].call.sec)
    /\ \A i \in 1..Len(written) :
          written[i].call.op = "cut" => (i = Len(written) /\ outcome = "success")
    /\ outcome = "success" =>
          /\ written # <<>>
          /\ written[Len(written)].call = Call("separator", "cut", "")
          /\ written[1].call.sec = "header"
          /\ HasSec("author")
          /\ HasSec("content")

\* a job that printed all seven steps
C4_Witness ==
    /\ pc = "return" /\ outcome = "success"
    /\ \A sec \in {"header", "reply", "avatar", "author", "content",
                   "attachments", "separator"} : HasSec(sec)
    /\ \E i \in 1..Len(written) : written[i].call.op = "image"
                                  /\ written[i].call.sec = "attachments"

-----------------------------------------------------------------------------
(* C5 *)

ReplyText(m) == "  Replying to " \o m.reference.author \o "\n"

\* C5: the reply marker is written exactly when the reply target is present,
\* resolved and authored by the monitored user; it directly follows the header
\* and names the author of the replied-to message.
C5_ReplyMarker ==
    pc # "idle" =>
        /\ HasSec("reply") => RuleReplyTarget(message)
        /\ \A i \in 1..Len(written) :
              written[i].call.sec = "reply" =>
                  /\ i > 1
                  /\ written[i - 1].call.sec \in {"header", "reply"}
                  /\ (written[i].call.op = "text" /\ written[i].call.arg # "\n")
                        => written[i].call.arg = ReplyText(message)
        /\ \A i \in 2..Len(written) :
              (written[i - 1].call.sec = "header" /\ written[i].call.sec # "header")
                  => (RuleReplyTarget(message) <=> written[i].call.sec = "reply")
        /\ (outcome = "success" /\ RuleReplyTarget(message))
              => HasText("reply", ReplyText(message))

\* a finished receipt with the reply marker on it
C5_Witness ==
    /\ pc = "return" /\ outcome = "success"
    /\ HasText("reply", "  Replying to target\n")
    /\ message.author # message.reference.author

-----------------------------------------------------------------------------
(* C6 *)

\* C6: when the connection cannot be opened the job ends as a failure and
\* nothing was written or downloaded for it: no printer call, no image fetch.
C6_ConnectFailureWritesNothing ==
    /\ [](outcome = "connect-error" =>
              /\ pc = "return"
              /\ written = <<>> /\ todo = <<>> /\ fetches = 0
              /\ printer = NoPrinter /\ openConns = {})
    /\ [][(pc = "print_message" /\ conns' = conns) =>
              /\ pc' = "return" /\ outcome' = "connect-error"
              /\ written' = <<>> /\ todo' = <<>> /\ fetches' = 0]_vars

\* a job that ended in connect-error
C6_Witness == pc = "return" /\ outcome = "connect-error" /\ jobs = 1

-----------------------------------------------------------------------------
(* C7 *)

\* C7: when a printer call raises, no later call of the job is written (no
\* cut), the connection is closed all the same, and the handler returns: the
\* error does not leave print_message.
C7_WriteFailureAborts ==
    /\ [](raised =>
              /\ pc = "return" /\ outcome = "write-error" /\ todo = <<>>
              /\ printer.state = "closed" /\ printer.id \notin openConns
              /\ \A i \in 1..Len(written) : written[i].call.op # "cut")
    /\ [][(raised' /\ ~raised) => written' = written]_vars
    /\ [][raised => (pc' = "idle" /\ ~raised')]_vars

\* a job cut short by a write error after part of the receipt was written
C7_Witness ==
    /\ raised /\ pc = "return" /\ outcome = "write-error"
    /\ HasSec("author") /\ ~HasSec("content")

-----------------------------------------------------------------------------
(* C8 *)

\* C8: a job that connected uses a connection opened for it alone, and close
\* was called on it before the job ended, on success and on failure; no
\* connection carries calls of two jobs and none stays open after its job.
C8_ConnectionPerJob ==
    /\ printer # NoPrinter =>
          /\ printer.job = jobs
          /\ printer.id = conns
          /\ \A i \in 1..Len(written) : written[i].conn = printer.id
    /\ printer = NoPrinter => written = <<>>
    /\ pc \in {"try", "printing"} =>
          (printer.state = "open" /\ openConns = {printer.id})
    /\ pc \notin {"try", "printing"} => openConns = {}
    /\ outcome \in {"success", "write-error"} =>
          (pc = "return" /\ printer.state = "closed")

\* the second job printed on its own connection after the first, which had
\* connected too, failed
C8_Witness ==
    /\ jobs = 2 /\ conns = 2 /\ failedBefore
    /\ pc = "return" /\ outcome = "success" /\ printer.id = 2

-----------------------------------------------------------------------------
(* C9 *)

\* C9: a failed job neither blocks nor drops later events: whatever failed
\* before, the handler takes the next event, filters it, and a passed event
\* gets a job that can connect, print and return like any other.
C9_FailureIsolated ==
    /\ (pc = "idle" /\ jobs < MaxJobs) =>
          \A m \in DeliverableMessages : ENABLED Deliver(m)
    /\ pc = "on_message" =>
          ENABLED (Filter /\ (pc' = "print_message" <=> ShouldPrint(message)))
    /\ pc = "print_message" =>
          ENABLED (Connect /\ pc' = "try" /\ printer'.job = jobs)
    /\ pc = "printing" => (ENABLED (PrinterCall /\ ~raised') \/ ENABLED Download)
    /\ pc = "return" => ENABLED Return

\* a job that succeeded after an earlier job had failed
C9_Witness ==
    /\ failedBefore /\ pc = "return" /\ outcome = "success" /\ jobs = 2

-----------------------------------------------------------------------------
(* C10 *)

\* C10: jobs are sequential: an event is taken only when the handling of the
\* one before has ended, so at most one connection is open at any time and the
\* calls on the printer are those of one job at a time.
C10_Sequential ==
    /\ [](Cardinality(openConns) <= 1)
    /\ [](pc \in {"on_message", "print_message"} =>
              (openConns = {} /\ written = <<>> /\ todo = <<>>))
    /\ [][(message' # message /\ message' # NoMessage) =>
              (pc = "idle" /\ openConns = {} /\ todo = <<>>)]_vars
    /\ [][(pc = "on_message" \/ pc = "print_message" \/ pc = "try"
              \/ pc = "printing") =>
              message' = message]_vars

\* the second job printing, on the only open connection
C10_Witness ==
    /\ jobs = 2 /\ pc = "printing" /\ written # <<>>
    /\ openConns = {printer.id} /\ conns = 2

-----------------------------------------------------------------------------
(* _download_and_process_image lines 84-92, on an image of any size *)

\* widths of the images drawn: 1..MaxImageWidth
MaxImageWidth == 7

\* heights of the images drawn: 1..MaxImageHeight
MaxImageHeight == 61

\* line 68: max_width: int = 384
DefaultMaxWidth == 384

MaxWidths == (1..MaxImageWidth) \cup {DefaultMaxWidth}

\* the image Image.open returned, and the max_width the method was given
OpenedImages ==
    { [width |-> w, height |-> h, max_width |-> mw, new_width |-> 0,
       new_height |-> 0, state |-> "opened"] :
        w \in 1..MaxImageWidth, h \in 1..MaxImageHeight, mw \in MaxWidths }

Min(a, b) == IF a <= b THEN a ELSE b

\* <<img.width, img.height, new_width>> for which the double product
\* new_width * (img.height / img.width) is just below the whole number
\* new_width * img.height / img.width: all those with img.width <= 8 and
\* img.height <= 62 (7 * (61 / 7) is 60.99999999999999)
RoundedBelow == { <<7, 61, 7>> }

\* a height rounded up to the next whole number
NewHeight_Ceiling(img_width, img_height, new_width) ==
    (new_width * img_height + img_width - 1) \div img_width

\* lines 87 and 89: int(new_width * (img.height / img.width)); int() drops
\* the fraction
NewHeight(img_width, img_height, new_width) ==
    (new_width * img_height) \div img_width
    - (IF <<img_width, img_height, new_width>> \in RoundedBelow THEN 1 ELSE 0)

\* lines 88 and 92
NewWidth(img_width, max_width) == Min(img_width, max_width)

InitResize ==
    /\ pc = "process_image"
    /\ message = NoMessage
    /\ width = PRINTER_WIDTH
    /\ printer = NoPrinter
    /\ todo = <<>>
    /\ written = <<>>
    /\ raised = FALSE
    /\ outcome = "none"
    /\ lookups = 0
    /\ fetches = 0
    /\ jobs = 0
    /\ conns = 0
    /\ openConns = {}
    /\ failedBefore = FALSE
    /\ errlog = <<>>
    /\ image \in OpenedImages

\* lines 86-92: the new size, and img.resize to it.  Whether resize to a
\* height of 0 raises ValueError or returns an empty image is the choice of
\* the Pillow release installed; an exception is caught and logged (line 98)
Resize ==
    /\ pc = "process_image"
    /\ LET new_width  == NewWidth(image.width, image.max_width)
           new_height == NewHeight(image.width, image.height, new_width)
       IN  \E resized \in (IF new_height = 0 THEN BOOLEAN ELSE {TRUE}) :
             /\ image' = [image EXCEPT
                             !.new_width = new_width,
                             !.new_height = new_height,
                             !.state = IF resized THEN "resized" ELSE "failed"]
             /\ errlog' = IF resized THEN errlog
                           ELSE Append(errlog, "Could not fetch/process image")
    /\ pc' = "processed"
    /\ UNCHANGED <<message, width, printer, todo, written, raised, outcome,
                   lookups, fetches, jobs, conns, openConns, failedBefore>>

NextResize == Resize

SpecResize == InitResize /\ [][NextResize]_vars

-----------------------------------------------------------------------------
(* The body lines of a finished receipt *)

\* the job printed everything and is about to return
Done == pc = "return" /\ outcome = "success"

IsBodyText(e) == e.call.sec = "content" /\ e.call.op = "text"

\* the strings _print_content passed to printer.text, in order
BodyLines ==
    LET cs == SelectSeq(written, IsBodyText)
    IN  [i \in 1..Len(cs) |-> cs[i].call.arg]

\* the tokens of the body of the message being handled
Tokens == Split(message.content)

\* the given tokens, each followed by one space
Spaced(toks) == Join([i \in 1..Len(toks) |-> toks[i] \o " "])

RECURSIVE Covers(_, _)
\* the lines are the tokens cut into consecutive runs: each line is a run of
\* whole tokens, each followed by one space, then the line break
Covers(lines, toks) ==
    IF lines = <<>> THEN toks = <<>>
    ELSE \E k \in 0..Len(toks) :
            /\ Head(lines) = Spaced(SubSeq(toks, 1, k)) \o "\n"
            /\ Covers(Tail(lines), SubSeq(toks, k + 1, Len(toks)))

-----------------------------------------------------------------------------
(* C11 *)

\* C11: for every body text and every width >= 1, the lines of the word-wrap,
\* concatenated with the line breaks taken out, are the whitespace-separated
\* tokens of the text in their order, one space after each: no token is lost,
\* duplicated, reordered or split.
C11_WrapKeepsTokens ==
    Done => Covers(BodyLines, Tokens)

\* three tokens or more, wrapped over two lines or more
C11_Witness ==
    Done /\ Len(Tokens) >= 3 /\ Len(BodyLines) >= 2 /\ width >= 2

-----------------------------------------------------------------------------
(* C12 *)

RECURSIVE LongAlone(_, _, _)
\* the lines are the tokens cut into consecutive runs, and a token longer
\* than w is a run of its own
LongAlone(lines, toks, w) ==
    IF lines = <<>> THEN toks = <<>>
    ELSE \E k \in 0..Len(toks) :
            /\ Head(lines) = Spaced(SubSeq(toks, 1, k)) \o "\n"
            /\ k > 1 => \A i \in 1..k : Len(toks[i]) <= w
            /\ LongAlone(Tail(lines), SubSeq(toks, k + 1, Len(toks)), w)

\* C12: a token longer than the width is written whole as a line of its own
\* (the token, its trailing space, nothing else): it is never split and never
\* shares its line, wherever in the text it stands.
C12_LongTokenAlone ==
    Done =>
        /\ LongAlone(BodyLines, Tokens, width)
        /\ \A i \in 1..Len(Tokens) :
              Len(Tokens[i]) > width =>
                  \E j \in 1..Len(BodyLines) :
                      BodyLines[j] = Tokens[i] \o " " \o "\n"

\* a token longer than the width between two shorter ones
C12_Witness ==
    /\ Done
    /\ \E i \in 2..(Len(Tokens) - 1) :
          /\ Len(Tokens[i]) > width
          /\ Len(Tokens[i - 1]) < width
          /\ Len(Tokens[i + 1]) < width

-----------------------------------------------------------------------------
(* C13 *)

\* the length of a written line, its trailing space counted, the line break not
LineLength(l) == Len(l) - 1

\* C13, as claimed: a line is longer than the width only when it consists of
\* one token that alone exceeds the width; every other line is at most as long
\* as the width.
C13_LongLineOnlyForLongToken ==
    Done =>
        \A j \in 1..Len(BodyLines) :
            LineLength(BodyLines[j]) > width =>
                \E i \in 1..Len(Tokens) :
                    /\ BodyLines[j] = Tokens[i] \o " " \o "\n"
                    /\ Len(Tokens[i]) > width

\* C13, amended: a line is longer than the width only when it consists of one
\* token that is at least as long as the width (with its trailing space it
\* exceeds the width); every other line is at most as long as the width.
C13_LongLineOnlyForWideToken ==
    Done =>
        \A j \in 1..Len(BodyLines) :
            LineLength(BodyLines[j]) > width =>
                \E i \in 1..Len(Tokens) :
                    /\ BodyLines[j] = Tokens[i] \o " " \o "\n"
                    /\ Len(Tokens[i]) >= width

\* a line of one token exactly as long as the width, after a line that fits
C13_Witness ==
    /\ Done
    /\ width >= 3
    /\ \E j \in 2..Len(BodyLines), i \in 1..Len(Tokens) :
          /\ BodyLines[j] = Tokens[i] \o " " \o "\n"
          /\ Len(Tokens[i]) = width
          /\ LineLength(BodyLines[j]) = width + 1
          /\ LineLength(BodyLines[j - 1]) \in 1..width

-----------------------------------------------------------------------------
(* C15 *)

\* the greedy reference: token by token, the lines flushed so far and the
\* current line; the current line is flushed before a token exactly when
\* currentLineLength + tokenLength >= maxWidth, and the token starts the new
\* line; every token is appended with a trailing space
GreedyAfter(toks, maxWidth) ==
    LET st[n \in 0..Len(toks)] ==
            IF n = 0 THEN [lines |-> <<>>, current |-> ""]
            ELSE LET before == st[n - 1]
                     token  == toks[n]
                 IN  IF Len(before.current) + Len(token) >= maxWidth
                     THEN [lines   |-> Append(before.lines, before.current),
                           current |-> token \o " "]
                     ELSE [lines   |-> before.lines,
                           current |-> before.current \o token \o " "]
    IN  st[Len(toks)]

\* a non-empty remainder is flushed at the end
Greedy(toks, maxWidth) ==
    LET end == GreedyAfter(toks, maxWidth)
    IN  IF end.current # "" THEN Append(end.lines, end.current) ELSE end.lines

\* C15: the body lines are those of the greedy reference algorithm, for every
\* token sequence and width; empty input yields zero lines; "hello there
\* friend" at width 10 yields exactly "hello ", "there ", "friend ".
C15_WrapIsGreedy ==
    Done =>
        /\ BodyLines = [i \in 1..Len(Greedy(Tokens, width)) |->
                            Greedy(Tokens, width)[i] \o "\n"]
        /\ Tokens = <<>> => BodyLines = <<>>
        /\ (message.content = HelloThereFriend /\ width = 10) =>
              BodyLines = << "hello \n", "there \n", "friend \n" >>

\* the scenario of the three words at width 10, printed
C15_Witness ==
    /\ Done
    /\ message.content = HelloThereFriend
    /\ width = 10
    /\ Len(BodyLines) = 3

-----------------------------------------------------------------------------
(* C20 *)

\* C20: every line of the body holds at least one token: no blank line is
\* written as part of the body, also when the first token is as long as the
\* width or longer.
C20_NoBlankBodyLine ==
    \A i \in 1..Len(written) :
        IsBodyText(written[i]) => written[i].call.arg # "\n"

-----------------------------------------------------------------------------
(* C14 *)

\* the name ends, whatever the case of its letters, in one of the six endings
NamedAsImage(f) ==
    \E ext \in { <<".", "j", "p", "g">>, <<".", "j", "p", "e", "g">>,
                  <<".", "p", "n", "g">>, <<".", "g", "i", "f">>,
                  <<".", "w", "e", "b", "p">>, <<".", "b", "m", "p">> } :
        /\ Len(f) >= Len(ext)
        /\ \A i \in 1..Len(ext) :
              LowerChar(f[Len(f) - Len(ext) + i]) = ext[i]

IsCaption(c, f) == c.op = "text" /\ c.arg = "[Image: " \o Join(f) \o "]\n"

IsImageOf(c, f) == c.op = "image" /\ c.arg = AttachmentUrl(f)

IsFailedCaption(c) == c.op = "text" /\ c.arg = "(Failed to load image)\n"

\* a caption, an image or a 'failed to load' caption of the attachments step
IsAttachmentOutput(e) ==
    /\ e.call.sec = "attachments"
    /\ \/ e.call.op = "image"
       \/ e.call.op = "text" /\ e.call.arg # "\n"

AttachmentOutput ==
    LET es == SelectSeq(written, IsAttachmentOutput)
    IN  [i \in 1..Len(es) |-> es[i].call]

RECURSIVE PerAttachment(_, _)
\* attachment by attachment: nothing for a name that is no image name; for an
\* image name its caption, then its image or the 'failed to load' caption
PerAttachment(out, atts) ==
    IF atts = <<>> THEN out = <<>>
    ELSE IF ~NamedAsImage(Head(atts)) THEN PerAttachment(out, Tail(atts))
    ELSE /\ Len(out) >= 2
         /\ IsCaption(out[1], Head(atts))
         /\ IsImageOf(out[2], Head(atts)) \/ IsFailedCaption(out[2])
         /\ PerAttachment(SubSeq(out, 3, Len(out)), Tail(atts))

NamedAsImageCount(atts) ==
    Cardinality({ i \in 1..Len(atts) : NamedAsImage(atts[i]) })

\* C14: for each attachment in order: a file name ending, whatever its case,
\* in .jpg .jpeg .png .gif .webp or .bmp gives its caption followed by exactly
\* one of the image (the fetch succeeded) or the 'failed to load' caption; any
\* other attachment gives no directive, no caption, no download and no error.
C14_AttachmentsInOrder ==
    Done =>
        /\ PerAttachment(AttachmentOutput, message.attachments)
        /\ fetches = 1 + NamedAsImageCount(message.attachments)
        /\ ~raised

\* a file that is no image, then an image with an upper-case ending, printed
C14_Witness ==
    /\ Done
    /\ message.attachments = <<ArchiveZip, CatPng>>
    /\ \E i \in 1..Len(written) :
          written[i].call = Call("attachments", "image", AttachmentUrl(CatPng))

-----------------------------------------------------------------------------
(* C16 *)

\* the next thing in the try body is a download
AtFetch == pc = "printing" /\ todo # <<>> /\ IsFetch(Head(todo))

\* after the download c the body goes on with the image it returned
GotImage(c, after) ==
    after # <<>> /\ Head(after).sec = c.sec /\ Head(after).op = "set"

\* C16: both downloads return absent, log the failure and never raise
\* whenever the status is not 200 or a transport or decode error occurs; when
\* the avatar is absent the job leaves the avatar out and goes on with the
\* author line.
C16_FetchFailureLogged ==
    [][(AtFetch /\ fetches' = fetches + 1) =>
          /\ pc' = "printing" /\ raised' = raised
          /\ ~GotImage(Head(todo), todo') => Len(errlog') = Len(errlog) + 1
          /\ (Head(todo).op = "fetch_avatar" /\ ~GotImage(Head(todo), todo')) =>
                (todo' = Tail(todo) /\ Head(todo').sec = "author")]_vars

-----------------------------------------------------------------------------
(* C17 *)

\* the distance of a from b
Dist(a, b) == IF a >= b THEN a - b ELSE b - a

\* C17, as claimed: the processed image of an image w0 x h0 is
\* min(w0, maxWidth) wide and round(newWidth * h0 / w0) high, the nearest
\* whole number to the exact height.
C17_HeightRounded ==
    image.state = "resized" =>
        /\ image.new_width = Min(image.width, image.max_width)
        /\ 2 * Dist(image.new_height * image.width,
                     image.new_width * image.height) <= image.width

\* C17, amended: the processed image is min(w0, maxWidth) wide, and its
\* height is the exact newWidth * h0 / w0 with the fraction dropped, not
\* rounded: never above the exact height and never more than one below it.
C17_HeightTruncated ==
    image.state = "resized" =>
        /\ image.new_width = Min(image.width, image.max_width)
        /\ image.new_height * image.width <= image.new_width * image.height
        /\ image.new_width * image.height - image.new_height * image.width
              <= image.width

\* an image narrowed to max_width whose exact height has a fraction above 1/2
C17_Witness ==
    /\ image.state = "resized"
    /\ image.width > image.max_width
    /\ image.new_width = image.max_width
    /\ image.new_height >= 1
    /\ 2 * ((image.new_width * image.height) % image.width) > image.width

-----------------------------------------------------------------------------
(* C18 *)

IsAuthorText(e) == e.call.sec = "author" /\ e.call.op = "text"

\* the strings of the author line, in the order they reached the printer
AuthorTexts ==
    LET es == SelectSeq(written, IsAuthorText)
    IN  [i \in 1..Len(es) |-> es[i].call.arg]

\* the job is past the author line: the body step has begun
AuthorLineDone == HasSec("content")

\* the tags of the event the job is rendering
TagDirectMention == TARGET_USER_ID \in message.mentions

TagRoleMention ==
    /\ message.guild
    /\ message.member.found
    /\ (message.role_mentions \cap message.member.roles) # {}

TagBroadcast == message.mention_everyone

\* C18: the author line is the display name first, then the badges in the
\* fixed order direct mention, role mention, broadcast mention, each present
\* exactly when its tag holds for the event, then the timestamp last.
C18_AuthorLineOrder ==
    AuthorLineDone =>
        AuthorTexts =
            <<message.author>>
            \o (IF TagDirectMention THEN <<" @">> ELSE <<>>)
            \o (IF TagRoleMention THEN <<" @role">> ELSE <<>>)
            \o (IF TagBroadcast THEN <<" @everyone">> ELSE <<>>)
            \o <<"  " \o TimeStamp \o "\n">>

\* an author line with all three badges
C18_Witness ==
    /\ AuthorLineDone
    /\ TagDirectMention /\ TagRoleMention /\ TagBroadcast
    /\ Len(AuthorTexts) = 5

-----------------------------------------------------------------------------
(* C19 *)

\* the try body of the job as far as it is settled: the calls that reached
\* the printer and the calls to come
JobCalls == [i \in 1..Len(written) |-> written[i].call] \o todo

InJob(c) == \E i \in 1..Len(JobCalls) : JobCalls[i] = c

\* the flags print_message derived, read off the receipt it builds
DerivedMention == InJob(Call("author", "text", " @"))

DerivedRoleMention == InJob(Call("author", "text", " @role"))

DerivedEveryone == InJob(Call("author", "text", " @everyone"))

DerivedReply == \E i \in 1..Len(JobCalls) : JobCalls[i].sec = "reply"

\* C19: the filter and the renderer agree: for every guild event the filter
\* passes, print_message derives at least one of is_mention, is_role_mention,
\* is_everyone, is_reply, and each flag is the outcome of the filter rule of
\* the same name (the guild answers both get_member calls alike).
C19_FilterAndRendererAgree ==
    (pc = "printing" /\ message.guild) =>
        /\ DerivedMention \/ DerivedRoleMention \/ DerivedEveryone
              \/ DerivedReply
        /\ DerivedMention <=> FilterMention(message)
        /\ DerivedRoleMention <=> FilterRoleMention(message)
        /\ DerivedEveryone <=> FilterEveryone(message)
        /\ DerivedReply <=> FilterReply(message)
        /\ lookups = 2 * FilterLookups(message)

\* a guild event that passed by the role rule alone, the member looked up twice
C19_Witness ==
    /\ pc = "printing" /\ message.guild
    /\ FilterRoleMention(message) /\ DerivedRoleMention
    /\ ~FilterMention(message) /\ ~FilterEveryone(message)
    /\ ~FilterReply(message)
    /\ lookups = 2

====
